---------------------------- MODULE Spec2Model ----------------------------
(***************************************************************************)
(* A model of squishy (src/squishy/src/lib.rs): locating a SquashFS image  *)
(* inside a byte stream, projecting the decoded nodes to entries,          *)
(* following symlink chains, and reading / writing file contents.          *)
(*                                                                         *)
(* Four specifications share the variables below; each one drives one      *)
(* group of operations and leaves the other groups at their idle values:   *)
(*   LocateSpec   SquashFS::from_path, SquashFS::new, find_squashfs_offset *)
(*   CatalogSpec  SquashFS::entries                                        *)
(*   ResolveSpec  SquashFS::resolve_symlink, follow_symlink, find_entries  *)
(*   ContentSpec  SquashFS::read_file, SquashFS::write_file                *)
(*                                                                         *)
(* Bytes are integers, strings are sequences of one-character strings and  *)
(* paths are compared as Rust's Path compares them: by components.         *)
(***************************************************************************)
EXTENDS Integers, Sequences, FiniteSets, TLC

VARIABLES
    op,        \* the public operation the caller invoked
    pc,        \* position inside that operation
    result,    \* what the operation returned to the caller (None while running)
    \* ---- locator / constructor
    stream,    \* the bytes behind the BufReader
    start,     \* stream position the BufReader had when it was handed over
    pos,       \* current stream position
    magic,     \* the 4-byte window `magic` of find_squashfs_offset
    found,     \* what find_squashfs_offset returned (None while running)
    ioFault,   \* TRUE once a read or seek of the stream failed with an I/O error
    openOk,    \* from_path: whether File::open succeeds
    \* ---- catalog / resolver
    nodes,     \* the decoded tree as the external reader yields it (reader.files())
    idx,       \* entries(): how many nodes the iterator has consumed
    out,       \* entries(): the entries yielded so far
    entry,     \* resolve_symlink: the entry passed in
    target,    \* follow_symlink: the current `target` argument
    visited,   \* follow_symlink: the per-call visited set
    steps,     \* number of follow_symlink calls made so far
    \* ---- content accessor
    path,      \* read_file / write_file: the source path asked for
    src,       \* index of the node being read (0: none selected yet)
    contents,  \* read_file: the buffer `contents`
    dest,      \* write_file: bytes of the destination file (None: not created)
    wbuf,      \* write_file: bytes held in the BufWriter's buffer
    destFault  \* TRUE once an operation on the destination failed

vars == <<op, pc, result, stream, start, pos, magic, found, ioFault, openOk,
          nodes, idx, out, entry, target, visited, steps,
          path, src, contents, dest, wbuf, destFault>>

locVars == <<stream, start, pos, magic, found, ioFault, openOk>>
catVars == <<nodes, idx, out, entry, target, visited, steps>>
conVars == <<path, src, contents, dest, wbuf, destFault>>

----------------------------------------------------------------------------
(* Values shared by all operations *)

None == [tag |-> "None", val |-> 0]

Ok(v) == [tag |-> "Ok", val |-> v]

Err(e) == [tag |-> "Err", val |-> e]

\* A panic unwinds out of the library: no Result value reaches the caller.
Panic == [tag |-> "Panic", val |-> 0]

----------------------------------------------------------------------------
(* Bounds *)

\* Longest stream handed to the locator.
MaxLen == 8

\* Largest stream position a BufReader is handed over with.
MaxStart == 1

----------------------------------------------------------------------------
(* Container locator and constructors *)

\* Kind::from_target("le_v4_0").magic(): the bytes "hsqs".
KindMagic == <<104, 115, 113, 115>>

\* Byte values streams are built from: the three distinct bytes of the magic.
Bytes == {104, 113, 115}

SeqsUpTo(S, n) == UNION {[1..k -> S] : k \in 0..n}

Streams == SeqsUpTo(Bytes, MaxLen)

\* Whether the magic starts at byte offset k (0-based) of s.
MagicAt(s, k) == k + 4 <= Len(s) /\ SubSeq(s, k + 1, k + 4) = KindMagic

HasMagic(s) == \E k \in 0..Len(s) : MagicAt(s, k)

\* Offset of the first occurrence of the magic, looking at every byte offset.
FirstOccurrence(s) ==
    CHOOSE k \in 0..Len(s) : MagicAt(s, k) /\ \A j \in 0..(k - 1) : ~MagicAt(s, j)

\* A faulty comparison: only the first three bytes of the window are compared.
MagicMatchesPrefix(m) == SubSeq(m, 1, 3) = SubSeq(KindMagic, 1, 3)

\* `magic == kind.magic()`
MagicMatches(m) == m = KindMagic

\* What read_exact leaves in the window when fewer than 4 bytes remain: the
\* bytes that were read overwrite its front.
PartialFill(m, s, p) ==
    [i \in 1..4 |-> IF p + i <= Len(s) THEN s[p + i] ELSE m[i]]

LocateIdle ==
    /\ stream = <<>> /\ start = 0 /\ pos = 0 /\ magic = <<0, 0, 0, 0>>
    /\ found = None /\ ioFault = FALSE /\ openOk = TRUE

CatalogIdle ==
    /\ nodes = <<>> /\ idx = 0 /\ out = <<>> /\ entry = None
    /\ target = <<>> /\ visited = {} /\ steps = 0

ContentIdle ==
    /\ path = <<>> /\ src = 0 /\ contents = <<>> /\ dest = None
    /\ wbuf = <<>> /\ destFault = FALSE

LocateInit ==
    /\ op \in {"new", "from_path"}
    /\ stream \in Streams
    /\ start \in {k \in 0..MaxStart : k <= Len(stream)}
    /\ op = "from_path" => start = 0
    /\ openOk \in BOOLEAN
    /\ op = "new" => openOk = TRUE
    /\ pos = start
    /\ magic = <<0, 0, 0, 0>>
    /\ found = None
    /\ ioFault = FALSE
    /\ pc = IF op = "from_path" THEN "from_path" ELSE "scan"
    /\ result = None
    /\ CatalogIdle
    /\ ContentIdle

\* from_path: File::open(path).unwrap(), BufReader::new(file), SquashFS::new(reader)
FromPath ==
    /\ pc = "from_path"
    /\ IF openOk
         THEN pc' = "scan" /\ result' = result
         ELSE pc' = "done" /\ result' = Panic
    /\ UNCHANGED <<op, locVars, catVars, conVars>>

\* One pass of `while file.read_exact(&mut magic).is_ok()` whose read succeeds.
\* A matching window ends the scan: stream_position()? and rewind()? may each
\* fail with an I/O error, which `?` returns from find_squashfs_offset.
ScanChunk ==
    /\ pc = "scan"
    /\ pos + 4 <= Len(stream)
    /\ magic' = SubSeq(stream, pos + 1, pos + 4)
    /\ IF MagicMatches(magic')
         THEN \/ /\ found' = Ok((pos + 4) - 4)
                 /\ pos' = 0
                 /\ ioFault' = ioFault
                 /\ pc' = "located"
              \/ /\ found' = Err("IOError")
                 /\ pos' \in {pos + 4, 0}
                 /\ ioFault' = TRUE
                 /\ pc' = "located"
         ELSE /\ pos' = pos + 4
              /\ UNCHANGED <<found, ioFault>>
              /\ pc' = "scan"
    /\ UNCHANGED <<op, result, stream, start, openOk, catVars, conVars>>

\* read_exact fails because fewer than 4 bytes remain: the loop ends and
\* find_squashfs_offset returns Err(NoSquashFsFound).
ScanEof ==
    /\ pc = "scan"
    /\ pos + 4 > Len(stream)
    /\ magic' = PartialFill(magic, stream, pos)
    /\ pos' = Len(stream)
    /\ found' = Err("NoSquashFsFound")
    /\ pc' = "located"
    /\ UNCHANGED <<op, result, stream, start, ioFault, openOk, catVars, conVars>>

\* read_exact fails with an I/O error of the underlying stream: is_ok() is
\* false, the loop ends the same way.
ScanReadError ==
    /\ pc = "scan"
    /\ ioFault' = TRUE
    /\ found' = Err("NoSquashFsFound")
    /\ pc' = "located"
    /\ UNCHANGED <<op, result, stream, start, pos, magic, openOk, catVars, conVars>>

\* SquashFS::new after find_squashfs_offset returned: map_err turns every
\* error into NoSquashFsFound; otherwise the external reader opens the image
\* at the offset and either accepts it or rejects it (InvalidSquashFS).
NewOpen ==
    /\ pc = "located"
    /\ IF found.tag = "Err"
         THEN result' = Err("NoSquashFsFound")
         ELSE result' \in {Ok([offset |-> found.val]), Err("InvalidSquashFS")}
    /\ pc' = "done"
    /\ UNCHANGED <<op, locVars, catVars, conVars>>

LocateNext == FromPath \/ ScanChunk \/ ScanEof \/ ScanReadError \/ NewOpen

LocateSpec == LocateInit /\ [][LocateNext]_vars


\* C1: when the stream is read from position 0, no read or seek fails and the
\* first occurrence of the magic starts at byte offset k (any k, aligned to 4
\* or not), find_squashfs_offset returns Ok(k) and SquashFS::new opens the
\* filesystem at offset k.
C1_LocatorReturnsFirstOccurrence ==
    (pc \in {"located", "done"} /\ found # None /\ start = 0 /\ ~ioFault
        /\ HasMagic(stream))
    => /\ found = Ok(FirstOccurrence(stream))
       /\ (pc = "done" /\ result.tag = "Ok")
            => result.val.offset = FirstOccurrence(stream)

\* C2: when the stream holds the magic at no byte offset, every call that
\* reaches SquashFS::new ends with Err(NoSquashFsFound), never with a handle.
C2_AbsentMagicIsNotFound ==
    (pc = "done" /\ found # None /\ ~HasMagic(stream))
    => result = Err("NoSquashFsFound")

\* C2 happens: a non-empty stream without the magic whose length is not a
\* multiple of 4 was scanned to its end without a fault and refused.
C2_Witness ==
    /\ pc = "done" /\ op = "new" /\ ~ioFault
    /\ ~HasMagic(stream) /\ Len(stream) > 4 /\ Len(stream) % 4 # 0
    /\ pos = Len(stream)
    /\ result = Err("NoSquashFsFound")

\* C7: when the path cannot be opened, from_path returns Err(IOError) to the
\* caller (neither NoSquashFsFound nor an abort).
C7_OpenFailureIsIOError ==
    (op = "from_path" /\ ~openOk /\ pc = "done") => result = Err("IOError")

----------------------------------------------------------------------------
(* Paths *)

\* The segments of a string between its "/" separators (empty ones included).
RECURSIVE Segments(_)
Segments(s) ==
    IF s = <<>> THEN << <<>> >>
    ELSE LET rest == Segments(Tail(s))
         IN  IF Head(s) = "/"
               THEN << <<>> >> \o rest
               ELSE << <<Head(s)>> \o Head(rest) >> \o Tail(rest)

IsNameSegment(x) == x # <<>> /\ x # <<".">>

\* Path::components on Unix: the root if the string starts with "/", then the
\* segments; repeated separators and "." segments vanish (a leading "." of a
\* relative path stays), ".." stays as it is.
ParseComponents(s) ==
    LET segs == Segments(s)
        root == s # <<>> /\ Head(s) = "/"
        lead == IF ~root /\ Head(segs) = <<".">> THEN << <<".">> >> ELSE <<>>
    IN  [root |-> root, names |-> lead \o SelectSeq(segs, IsNameSegment)]

Slash == <<"/">>

\* Paths of the nodes of the decoded tree (node.fullpath).
NodePaths == { <<"/", "a">>, <<"/", "l">>, <<"/", "d", "/", "l">> }

\* Raw link strings a symlink node stores: relative, absolute, nested relative.
Links == { <<"a">>, <<"/", "l">>, <<"d", "/", "l">> }

\* The path of an entry that belongs to no node.
ForeignPath == <<"/", "x">>

\* format!("/{}", symlink.link.display())
SymlinkTarget(link) == Slash \o link

\* Every path string the operations meet, parsed once.
PathStrings ==
    NodePaths \cup Links \cup {SymlinkTarget(l) : l \in Links} \cup {ForeignPath}

ComponentsTable == [s \in PathStrings |-> ParseComponents(s)]

\* The components of a path string (looked up in the table when it is there).
Components(s) ==
    IF s \in PathStrings THEN ComponentsTable[s] ELSE ParseComponents(s)

\* A faulty comparison: only the final component (the file name) is compared,
\* as Path::ends_with would with a bare name.
FileNameEq(p, q) ==
    LET a == Components(p).names
        b == Components(q).names
    IN  a # <<>> /\ b # <<>> /\ a[Len(a)] = b[Len(b)]

\* PathBuf == Path: equality of the component sequences.
PathEq(p, q) == Components(p) = Components(q)

----------------------------------------------------------------------------
(* Entry catalog *)

\* Most nodes the decoded tree holds.
MaxNodes == 3

Node(p, tag, data, link) == [fullpath |-> p, tag |-> tag, data |-> data, link |-> link]

\* File content of the nodes of the tree the resolver walks.
TreeData == { <<104>> }

\* Nodes of the trees the catalog and the resolver work on: at every path a
\* file or a symlink with any of the links; a directory and a node of another
\* kind (a device, a socket) at one path each.
TreeNodes ==
    {Node(p, "File", d, <<>>) : p \in NodePaths, d \in TreeData}
    \cup {Node(<<"/", "l">>, "Dir", <<>>, <<>>), Node(<<"/", "a">>, "Other", <<>>, <<>>)}
    \cup {Node(p, "Symlink", <<>>, l) : p \in NodePaths, l \in Links}

Catalogs == SeqsUpTo(TreeNodes, MaxNodes)

Entry(p, size, kind, t) == [path |-> p, size |-> size, kind |-> kind, target |-> t]

\* The closure of entries(): one node to one SquashFSEntry.
Project(node) ==
    LET size == IF node.tag = "File" THEN Len(node.data) ELSE 0
    IN  CASE node.tag = "File"    -> Entry(node.fullpath, size, "File", <<>>)
          [] node.tag = "Dir"     -> Entry(node.fullpath, size, "Directory", <<>>)
          [] node.tag = "Symlink" -> Entry(node.fullpath, size, "Symlink",
                                           SymlinkTarget(node.link))
          [] OTHER                -> Entry(node.fullpath, size, "Unknown", <<>>)

\* entries() run to its end over the tree ns.
Entries(ns) == [i \in 1..Len(ns) |-> Project(ns[i])]

CatalogInit ==
    /\ op = "entries"
    /\ pc = "iter"
    /\ result = None
    /\ nodes \in Catalogs
    /\ idx = 0
    /\ out = <<>>
    /\ entry = None /\ target = <<>> /\ visited = {} /\ steps = 0
    /\ LocateIdle
    /\ ContentIdle

\* The iterator of entries() yields its next entry.
EntriesNext ==
    /\ op = "entries" /\ pc = "iter"
    /\ idx < Len(nodes)
    /\ idx' = idx + 1
    /\ out' = Append(out, Project(nodes[idx + 1]))
    /\ UNCHANGED <<op, pc, result, nodes, entry, target, visited, steps,
                   locVars, conVars>>

\* The iterator of entries() is exhausted.
EntriesEnd ==
    /\ op = "entries" /\ pc = "iter"
    /\ idx = Len(nodes)
    /\ pc' = "done"
    /\ result' = Ok(out)
    /\ UNCHANGED <<op, locVars, catVars, conVars>>

CatalogNext == EntriesNext \/ EntriesEnd

CatalogSpec == CatalogInit /\ [][CatalogNext]_vars

\* The directory holding a path: its components without the last one.
ParentNames(p) ==
    LET n == Components(p).names IN SubSeq(n, 1, Len(n) - 1)

\* Where a symlink node points: an absolute link as it is, a relative link
\* against the directory that holds the symlink.
Destination(node) ==
    LET l == Components(node.link)
    IN  IF l.root THEN l
        ELSE [root |-> TRUE, names |-> ParentNames(node.fullpath) \o l.names]

\* C8: every Symlink entry entries() yields holds an absolute target that is
\* the link's destination: a relative link resolved against the directory of
\* the symlink, an absolute link unchanged.
C8_SymlinkTargetIsDestination ==
    \A i \in 1..Len(out) :
        out[i].kind = "Symlink"
        => /\ Components(out[i].target).root
           /\ Components(out[i].target) = Destination(nodes[i])

----------------------------------------------------------------------------
(* Symlink resolver *)

Some(e) == [tag |-> "Some", val |-> e]

\* Entries a caller builds by hand (the fields of SquashFSEntry are public):
\* symlinks at a path of no node.
ForeignEntries ==
    {Entry(ForeignPath, 0, "Symlink", t) : t \in NodePaths}

\* A faulty predicate: the paths are compared by their file names only.
TargetPredicateByName(p, t) == FileNameEq(p, t)

\* The closure `move |p| p == target_path` handed to find_entries.
TargetPredicate(p, t) == PathEq(p, t)

\* find_entries(predicate) run to its end: entries() filtered on the path.
FindEntries(ns, t) ==
    LET Keep(e) == TargetPredicate(e.path, t)
    IN  SelectSeq(Entries(ns), Keep)

\* A faulty pick: the last element of the iterator instead of the first.
IterLast(it) == IF it = <<>> THEN None ELSE Some(it[Len(it)])

\* Iterator::next on a fresh iterator: its first element, if any.
IterNext(it) == IF it = <<>> THEN None ELSE Some(Head(it))

\* `visited.insert(entry.path.clone())` on the new HashSet.
InitialVisited(e) == {Components(e.path)}

\* A faulty insert: the path always counts as new.
InsertAlwaysNew(v, t) == TRUE

\* What HashSet::insert returns: TRUE when the path was not yet in the set.
InsertIsNew(v, t) == Components(t) \notin v

\* A faulty answer to a cycle: reported like a dangling link.
CycleResultAbsent == Ok(None)

\* Err(SquishyError::SymlinkError("Cyclic symlink detected".into()))
CycleResult == Err("SymlinkError")

ResolveInit ==
    /\ op = "resolve_symlink"
    /\ pc = "resolve"
    /\ result = None
    /\ nodes \in Catalogs
    /\ entry \in {Entries(nodes)[i] : i \in 1..Len(nodes)} \cup ForeignEntries
    /\ idx = 0 /\ out = <<>>
    /\ target = <<>>
    /\ visited = {}
    /\ steps = 0
    /\ LocateIdle
    /\ ContentIdle

\* resolve_symlink: a symlink entry starts the walk, any other entry is
\* answered Ok(None) at once.
ResolveSymlink ==
    /\ pc = "resolve"
    /\ IF entry.kind = "Symlink"
         THEN /\ visited' = InitialVisited(entry)
              /\ target' = entry.target
              /\ pc' = "follow"
              /\ result' = result
         ELSE /\ result' = Ok(None)
              /\ pc' = "done"
              /\ UNCHANGED <<visited, target>>
    /\ UNCHANGED <<op, nodes, idx, out, entry, steps, locVars, conVars>>

\* One call of follow_symlink(target, visited). Every return value is passed
\* up the recursion unchanged, so the innermost return is the result.
FollowSymlink ==
    /\ pc = "follow"
    /\ steps' = steps + 1
    /\ IF ~InsertIsNew(visited, target)
         THEN /\ result' = CycleResult
              /\ pc' = "done"
              /\ UNCHANGED <<visited, target>>
         ELSE /\ visited' = visited \cup {Components(target)}
              /\ LET hit == IterNext(FindEntries(nodes, target))
                 IN  IF hit = None
                       THEN /\ result' = Ok(None)
                            /\ pc' = "done"
                            /\ target' = target
                       ELSE IF hit.val.kind = "Symlink"
                              THEN /\ target' = hit.val.target
                                   /\ pc' = "follow"
                                   /\ result' = result
                              ELSE /\ result' = Ok(Some(hit.val))
                                   /\ pc' = "done"
                                   /\ target' = target
    /\ UNCHANGED <<op, nodes, idx, out, entry, locVars, conVars>>

ResolveNext == ResolveSymlink \/ FollowSymlink

ResolveSpec == ResolveInit /\ [][ResolveNext]_vars

(* The chain of an entry, read off the tree without running the resolver *)

\* Index of the first node whose path has the components of t (0: none).
Lookup(ns, t) ==
    LET I == {i \in 1..Len(ns) : Components(ns[i].fullpath) = Components(t)}
    IN  IF I = {} THEN 0 ELSE CHOOSE i \in I : \A j \in I : i <= j

\* The targets met from t on, at most n of them: t, then the target of the
\* symlink t names, and so on until a path names no symlink.
RECURSIVE ChainFrom(_, _, _)
ChainFrom(ns, t, n) ==
    IF n = 0 THEN <<>>
    ELSE LET i == Lookup(ns, t)
         IN  IF i = 0 \/ ns[i].tag # "Symlink"
               THEN <<t>>
               ELSE <<t>> \o ChainFrom(ns, Slash \o ns[i].link, n - 1)

\* Long enough to show a revisit of any chain over ns.
Chain(ns, e) == ChainFrom(ns, e.target, Len(ns) + 2)

\* Some target of the chain c of entry e is e's own path or an earlier
\* target of the chain.
Revisits(c, e) ==
    \E m \in 1..Len(c) :
        \/ Components(c[m]) = Components(e.path)
        \/ \E j \in 1..(m - 1) : Components(c[m]) = Components(c[j])

Cyclic(ns, e) == Revisits(Chain(ns, e), e)

\* Index of the node the chain ends at (0: its last target names no node).
ChainEnd(ns, e) == LET c == Chain(ns, e) IN Lookup(ns, c[Len(c)])

InCatalog(ns, e) == \E i \in 1..Len(ns) : Project(ns[i]) = e

\* Number of distinct target paths among the symlinks of the tree.
DistinctTargets(ns) ==
    Cardinality({Components(Slash \o ns[i].link) :
                    i \in {j \in 1..Len(ns) : ns[j].tag = "Symlink"}})

\* C3: a symlink entry whose chain revisits a path (its own or an earlier
\* target: a self-link, A->B->A, any longer cycle) is answered with the
\* cyclic-symlink error.
C3_CycleIsSymlinkError ==
    (pc = "done" /\ entry.kind = "Symlink" /\ Cyclic(nodes, entry))
    => result = Err("SymlinkError")

\* C3 happens: an entry of the tree on a cycle of two or more links was
\* resolved and refused.
C3_Witness ==
    /\ pc = "done" /\ entry.kind = "Symlink" /\ InCatalog(nodes, entry)
    /\ Cyclic(nodes, entry) /\ steps >= 2
    /\ ~PathEq(entry.target, entry.path)
    /\ result = Err("SymlinkError")

\* C4: a symlink entry whose chain revisits no path and ends at a node that is
\* no symlink is answered Ok(Some(e)), e the entry of the first node in tree
\* order with the last target's path; e is never a symlink.
C4_ChainResolvesToFirstMatch ==
    (pc = "done" /\ entry.kind = "Symlink")
    => LET c == Chain(nodes, entry)
           i == Lookup(nodes, c[Len(c)])
       IN  (~Revisits(c, entry) /\ i # 0)
           => /\ result = Ok(Some(Project(nodes[i])))
              /\ result.val.val.kind \in {"File", "Directory", "Unknown"}

\* C4 happens: an entry of the tree was resolved through a second symlink of
\* the tree (A -> B -> C) to the file C.
C4_Witness ==
    /\ pc = "done" /\ entry.kind = "Symlink" /\ InCatalog(nodes, entry)
    /\ ~Cyclic(nodes, entry) /\ steps = 2
    /\ ChainEnd(nodes, entry) # 0
    /\ result = Ok(Some(Project(nodes[ChainEnd(nodes, entry)])))
    /\ result.val.val.kind = "File"

\* C5: a symlink entry whose chain revisits no path and ends at a target that
\* is the path of no node is answered Ok(None), never an error.
C5_DanglingIsAbsent ==
    (pc = "done" /\ entry.kind = "Symlink")
    => LET c == Chain(nodes, entry)
       IN  (~Revisits(c, entry) /\ Lookup(nodes, c[Len(c)]) = 0)
           => result = Ok(None)

\* C5 happens: a chain of two links ending at a missing path was resolved to
\* the absent result while the tree holds other nodes.
C5_Witness ==
    /\ pc = "done" /\ entry.kind = "Symlink" /\ ~Cyclic(nodes, entry)
    /\ ChainEnd(nodes, entry) = 0 /\ steps = 2 /\ Len(nodes) >= 2
    /\ result = Ok(None)

\* C10 as claimed: every follow_symlink step has added one new path to the
\* visited set, and the steps number at most the distinct target paths of the
\* tree plus one.
C10_StepsAtMostTargetsPlusOne ==
    (entry.kind = "Symlink" /\ pc \in {"follow", "done"})
    => /\ Cardinality(visited) = 1 + steps
       /\ steps <= DistinctTargets(nodes) + 1

TerminalOutcome(r) ==
    \/ r = Ok(None)
    \/ r = Err("SymlinkError")
    \/ /\ r.tag = "Ok" /\ r.val.tag = "Some"
       /\ r.val.val.kind \in {"File", "Directory", "Unknown"}

\* C10 amended: a call that has not returned can always take its next step,
\* a call that returned holds a terminal outcome; every follow_symlink step
\* but one that detects a cycle has added one new path to the visited set; the
\* steps number at most the distinct target paths of the tree plus two, and
\* plus one when the entry passed in is an entry of the tree.
C10_StepsBounded ==
    /\ pc # "done" => ENABLED ResolveNext
    /\ pc = "done" => TerminalOutcome(result)
    /\ entry.kind # "Symlink" => steps = 0
    /\ (entry.kind = "Symlink" /\ pc \in {"follow", "done"})
       => /\ Cardinality(visited) =
                IF result = Err("SymlinkError") THEN steps ELSE 1 + steps
          /\ steps <= DistinctTargets(nodes) + 2
          /\ InCatalog(nodes, entry) => steps <= DistinctTargets(nodes) + 1

\* C10 happens: a hand-built entry was resolved in as many steps as the tree
\* has distinct targets plus two, the last one detecting a cycle.
C10_Witness ==
    /\ pc = "done" /\ entry.kind = "Symlink" /\ ~InCatalog(nodes, entry)
    /\ steps = DistinctTargets(nodes) + 2
    /\ result = Err("SymlinkError")

----------------------------------------------------------------------------
(* Content accessor *)

\* Longest file content.
MaxData == 3

\* Most nodes of the trees files are read from.
MaxFiles == 2

\* Capacity of the BufWriter write_file wraps the destination in. The standard
\* library's default is 8192 bytes; the model scales it down so that contents
\* both below and at or above it occur.
BufWriterCapacity == 2

\* Byte values of file contents: "h" and "i".
DataBytes == {104, 105}

FilePaths == { <<"/", "a">>, <<"/", "l">> }

FileNodes ==
    {Node(p, "File", d, <<>>) : p \in FilePaths, d \in SeqsUpTo(DataBytes, MaxData)}
    \cup {Node(p, "Dir", <<>>, <<>>) : p \in FilePaths}

\* What the destination path holds before write_file: nothing, or an old file.
DestBefore == {None, Some(<<0>>)}

ContentInit ==
    /\ op \in {"read_file", "write_file"}
    /\ pc = "search"
    /\ result = None
    /\ nodes \in SeqsUpTo(FileNodes, MaxFiles)
    /\ path \in FilePaths
    /\ src = 0
    /\ contents = <<>>
    /\ dest \in DestBefore
    /\ op = "read_file" => dest = None
    /\ wbuf = <<>>
    /\ destFault = FALSE
    /\ idx = 0 /\ out = <<>> /\ entry = None /\ target = <<>>
    /\ visited = {} /\ steps = 0
    /\ LocateIdle

\* Index of the node read_file's loop stops at: the first one whose fullpath
\* equals the path and whose inner node is a File (0: the loop runs out).
FirstFileAt(ns, p) ==
    LET I == {i \in 1..Len(ns) : PathEq(ns[i].fullpath, p) /\ ns[i].tag = "File"}
    IN  IF I = {} THEN 0 ELSE CHOOSE i \in I : \A j \in I : i <= j

\* What read_file hands back, to the caller or to write_file (`?`).
ReadReturn(r) ==
    IF op = "read_file" \/ r.tag = "Err"
      THEN pc' = "done" /\ result' = r
      ELSE pc' = "create" /\ result' = result

\* read_file: the loop over reader.files() up to the node to read, or to
\* Err(FileNotFound(path)).
ReadFileSearch ==
    /\ pc = "search"
    /\ LET i == FirstFileAt(nodes, path)
       IN  IF i = 0
             THEN /\ ReadReturn(Err("FileNotFound"))
                  /\ src' = src
             ELSE /\ src' = i
                  /\ pc' = "drain"
                  /\ result' = result
    /\ UNCHANGED <<op, path, contents, dest, wbuf, destFault, locVars, catVars>>

\* `while let Some(Ok(byte)) = reader.next()`: the reader yields a byte.
DrainByte ==
    /\ pc = "drain"
    /\ Len(contents) < Len(nodes[src].data)
    /\ contents' = Append(contents, nodes[src].data[Len(contents) + 1])
    /\ UNCHANGED <<op, pc, result, path, src, dest, wbuf, destFault,
                   locVars, catVars>>

\* The reader yields None at the end of the file: the loop ends and
\* read_file returns Ok(contents).
DrainEnd ==
    /\ pc = "drain"
    /\ Len(contents) = Len(nodes[src].data)
    /\ ReadReturn(Ok(contents))
    /\ UNCHANGED <<op, path, src, contents, dest, wbuf, destFault,
                   locVars, catVars>>

\* The reader yields Some(Err(_)) while bytes remain: the pattern does not
\* match, the loop ends and read_file returns Ok(contents) all the same.
DrainError ==
    /\ pc = "drain"
    /\ Len(contents) < Len(nodes[src].data)
    /\ ReadReturn(Ok(contents))
    /\ UNCHANGED <<op, path, src, contents, dest, wbuf, destFault,
                   locVars, catVars>>

\* write_file: File::create(dest)? creates or truncates the destination, or
\* fails with an I/O error that `?` returns.
WriteCreate ==
    /\ pc = "create"
    /\ \/ /\ dest' = Some(<<>>)
          /\ pc' = "write"
          /\ UNCHANGED <<result, destFault>>
       \/ /\ destFault' = TRUE
          /\ result' = Err("IOError")
          /\ pc' = "done"
          /\ dest' = dest
    /\ UNCHANGED <<op, path, src, contents, wbuf, locVars, catVars>>

\* writer.write_all(&contents)? on the fresh BufWriter: contents shorter than
\* the capacity are only copied into the buffer; longer ones go straight to
\* the file, where the write may fail after any number of bytes.
WriteAll ==
    /\ pc = "write"
    /\ IF Len(contents) < BufWriterCapacity
         THEN /\ wbuf' = contents
              /\ pc' = "drop"
              /\ UNCHANGED <<dest, result, destFault>>
         ELSE /\ wbuf' = wbuf
              /\ \/ /\ dest' = Some(dest.val \o contents)
                    /\ pc' = "drop"
                    /\ UNCHANGED <<result, destFault>>
                 \/ \E k \in 0..(Len(contents) - 1) :
                       /\ dest' = Some(dest.val \o SubSeq(contents, 1, k))
                       /\ destFault' = TRUE
                       /\ result' = Err("IOError")
                       /\ pc' = "done"
    /\ UNCHANGED <<op, path, src, contents, locVars, catVars>>

\* Ok(()) with the BufWriter going out of scope: its drop flushes the buffer
\* to the file and ignores the outcome; a failing flush may have written any
\* part of the buffer.
WriterDrop ==
    /\ pc = "drop"
    /\ \/ /\ dest' = Some(dest.val \o wbuf)
          /\ destFault' = destFault
       \/ /\ wbuf # <<>>
          /\ \E k \in 0..(Len(wbuf) - 1) :
                dest' = Some(dest.val \o SubSeq(wbuf, 1, k))
          /\ destFault' = TRUE
    /\ wbuf' = <<>>
    /\ result' = Ok(<<>>)
    /\ pc' = "done"
    /\ UNCHANGED <<op, path, src, contents, locVars, catVars>>

ContentNext ==
    \/ ReadFileSearch \/ DrainByte \/ DrainEnd \/ DrainError
    \/ WriteCreate \/ WriteAll \/ WriterDrop

ContentSpec == ContentInit /\ [][ContentNext]_vars

\* C6: whenever read_file returns Ok(buffer) for the path of a File node, the
\* buffer is that node's whole content and as long as the size its entry
\* reports, also when the byte reader fails part-way.
C6_ReadFileReturnsWholeContent ==
    (op = "read_file" /\ pc = "done" /\ result.tag = "Ok")
    => /\ src = FirstFileAt(nodes, path)
       /\ result.val = nodes[src].data
       /\ Len(result.val) = Project(nodes[src]).size

\* C9: every failure on the destination side makes write_file return
\* Err(IOError), and write_file returns Ok only with the destination holding
\* exactly the buffer read_file returned.
C9_DestinationFailureIsIOError ==
    (op = "write_file" /\ pc = "done")
    => /\ destFault => result = Err("IOError")
       /\ result.tag = "Ok" => dest = Some(contents)

============================================================================
